---- MODULE Spec2Model ----
(***************************************************************************)
(* Immutable radix tree (go-immutable-radix): the node graph as a heap of  *)
(* Node objects and edge backing arrays, the path-copying insert/delete of *)
(* a Txn, and the read operations of a Node.                               *)
(*                                                                         *)
(* Pointers are heap indices (Nil = 0).  A Go slice of edges is a pair     *)
(* (backing array, length); its capacity is the length of the backing      *)
(* array.  Go indices are 0-based; sequences here are 1-based, so the Go   *)
(* element x[i] is x[i + 1] below.  Bytes are the numbers 1 and 2.          *)
(* A *leafNode is modelled by its value: no code writes a field of a       *)
(* leafNode after it is built.                                             *)
(***************************************************************************)
EXTENDS Integers, Sequences, FiniteSets, TLC

\* ------------------------------------------------------------------ bounds
\* Mutating operations (Insert/Delete calls) performed after the initial load.
MaxOps == 2

\* The keys the operations draw from ("", "a", "aaa", "aab", "ab", "b"), in
\* ascending order.
KeySeq ==
    << <<>>, <<1>>, <<1, 1, 1>>, <<1, 1, 2>>, <<1, 2>>, <<2>> >>

Keys ==
    { KeySeq[i] : i \in 1..Len(KeySeq) }

\* The transactions a run may start.
TxnIds ==
    { 1, 2 }

\* Insert/Delete calls the two transactions make between them.
MaxTxnOps == 2

\* Insert/Delete calls made after the load before a query is run on the tree.
MaxQueryOps == 1

\* A walk's callback aborts on its stop-th call, for stop up to MaxStop (0: never).
MaxStop == 2

\* The arguments the queries draw from: the keys, "aa" (ends inside an edge
\* prefix, or at an inner node), "aba" (runs past a stored key), "ba" and "aaaa".
Queries ==
    Keys \cup { <<1, 1>>, <<1, 2, 1>>, <<2, 1>>, <<1, 1, 1, 1>> }

\* ------------------------------------------------------------------ values
Nil == 0

\* A nil interface{} value.
NilVal == 0

\* A nil *leafNode.
NilLeaf ==
    [isSet |-> FALSE, key |-> <<>>, val |-> NilVal]

\* &leafNode{key: k, val: v}
leafNode(k, v) ==
    [isSet |-> TRUE, key |-> k, val |-> v]

\* edge{label, node}; edge{} is the zero edge.
edge(label, node) ==
    [label |-> label, node |-> node]

ZeroEdge ==
    edge(0, Nil)

\* A nil edges slice.
NilEdges ==
    [arr |-> Nil, len |-> 0]

\* &Node{leaf, prefix, edges}
Node(leaf, prefix, edges) ==
    [leaf |-> leaf, prefix |-> prefix, edges |-> edges]

\* The heap: node objects, edge backing arrays, the locations written by the
\* operation in progress (a node's fields, or slot i of an array), and whether
\* the operation panicked.
EmptyHeap ==
    [nodes |-> <<>>, arrs |-> <<>>, w |-> {}, panic |-> FALSE]

\* ------------------------------------------------------------------ heap primitives
\* &Node{...}: allocate a node; its address is Len(nodes) of the result.
AllocNode(h, rec) ==
    [h EXCEPT !.nodes = Append(@, rec)]

\* make([]edge, ...): allocate a backing array; its address is Len(arrs) of the result.
AllocArr(h, es) ==
    [h EXCEPT !.arrs = Append(@, es)]

\* Assignment to a field of node n.
StoreNode(h, n, rec) ==
    [h EXCEPT !.nodes[n] = rec, !.w = @ \cup {<<"node", n, 0>>}]

\* Assignment to slot i (1-based) of backing array a.
StoreSlot(h, a, i, e) ==
    [h EXCEPT !.arrs[a][i] = e, !.w = @ \cup {<<"arr", a, i>>}]

\* n.edges as a sequence: the first len elements of the backing array.
EdgesOf(h, n) ==
    LET s == h.nodes[n].edges
    IN  IF s.arr = Nil THEN <<>> ELSE SubSeq(h.arrs[s.arr], 1, s.len)

\* cap(n.edges)
CapOf(h, n) ==
    LET s == h.nodes[n].edges
    IN  IF s.arr = Nil THEN 0 ELSE Len(h.arrs[s.arr])

\* n.isLeaf()
isLeaf(h, n) ==
    h.nodes[n].leaf.isSet

\* HasPrefix as it would be if it compared the lengths only.
HasPrefixLengthOnly(s, p) ==
    Len(p) <= Len(s)

\* bytes.HasPrefix(s, p)
HasPrefix(s, p) ==
    /\ Len(p) <= Len(s)
    /\ SubSeq(s, 1, Len(p)) = p

\* s[i:] for a 0-based i
From(s, i) ==
    SubSeq(s, i + 1, Len(s))

\* sort.Search(num, func(i) { return n.edges[i].label >= label }): binary search
\* for the smallest index in [i, j) whose label is >= label, else j.
RECURSIVE Search(_, _, _, _)
Search(es, label, i, j) ==
    IF i < j
    THEN LET m == (i + j) \div 2
         IN  IF es[m + 1].label >= label
             THEN Search(es, label, i, m)
             ELSE Search(es, label, m + 1, j)
    ELSE i

\* The capacity append gives a grown slice (Go runtime growslice, small slices).
GrowCap(oldcap, needed) ==
    IF oldcap = 0 THEN needed
    ELSE IF needed > 2 * oldcap THEN needed ELSE 2 * oldcap

\* es followed by zero edges, c elements in all (the new backing array).
Padded(es, c) ==
    es \o SubSeq(<<ZeroEdge, ZeroEdge, ZeroEdge, ZeroEdge>>, 1, c - Len(es))

\* n.edges = append(n.edges, e)
appendEdge(h, n, e) ==
    LET s == h.nodes[n].edges
        cap == CapOf(h, n)
    IN  IF s.len < cap
        THEN LET h1 == StoreSlot(h, s.arr, s.len + 1, e)
             IN  StoreNode(h1, n, [h1.nodes[n] EXCEPT !.edges.len = s.len + 1])
        ELSE LET h1 == AllocArr(h, Padded(Append(EdgesOf(h, n), e), GrowCap(cap, s.len + 1)))
             IN  StoreNode(h1, n, [h1.nodes[n] EXCEPT
                                      !.edges = [arr |-> Len(h1.arrs), len |-> s.len + 1]])

\* copy(n.edges[idx+1:], n.edges[idx:num]) for 0-based idx, on n's backing array.
RECURSIVE shiftRight(_, _, _, _, _)
shiftRight(h, a, old, idx, i) ==
    IF i <= idx THEN h
    ELSE shiftRight(StoreSlot(h, a, i + 1, old[i]), a, old, idx, i - 1)

\* ------------------------------------------------------------------ node.go: edges
\* addEdge as it would be if it appended the edge without moving it to its place
\* in label order.
addEdgeAtEnd(h, n, e) ==
    appendEdge(h, n, e)

\* n.addEdge(e)
addEdge(h, n, e) ==
    LET old == EdgesOf(h, n)
        num == Len(old)
        idx == Search(old, e.label, 0, num)
        \* h1: the heap after the append
        Place(h1) ==
            IF idx # num
            THEN StoreSlot(shiftRight(h1, h1.nodes[n].edges.arr, old, idx, num),
                           h1.nodes[n].edges.arr, idx + 1, e)
            ELSE h1
    IN  Place(appendEdge(h, n, e))

\* n.replaceEdge(e): panics when no edge carries e.label.
replaceEdge(h, n, e) ==
    LET es  == EdgesOf(h, n)
        num == Len(es)
        idx == Search(es, e.label, 0, num)
    IN  IF idx < num /\ es[idx + 1].label = e.label
        THEN StoreSlot(h, h.nodes[n].edges.arr, idx + 1, edge(es[idx + 1].label, e.node))
        ELSE [h EXCEPT !.panic = TRUE]

\* getEdge as it would be if it counted the index from one.
getEdgeIndexFromOne(h, n, label) ==
    LET es  == EdgesOf(h, n)
        num == Len(es)
        idx == Search(es, label, 0, num)
    IN  IF idx < num /\ es[idx + 1].label = label
        THEN [idx |-> idx + 1, node |-> es[idx + 1].node]
        ELSE [idx |-> -1, node |-> Nil]

\* n.getEdge(label): (idx, child), or (-1, nil).
getEdge(h, n, label) ==
    LET es  == EdgesOf(h, n)
        num == Len(es)
        idx == Search(es, label, 0, num)
    IN  IF idx < num /\ es[idx + 1].label = label
        THEN [idx |-> idx, node |-> es[idx + 1].node]
        ELSE [idx |-> -1, node |-> Nil]

\* copy(n.edges[idx:], n.edges[idx+1:]) for 0-based idx.
RECURSIVE shiftLeft(_, _, _, _, _)
shiftLeft(h, a, old, i, num) ==
    IF i >= num THEN h
    ELSE shiftLeft(StoreSlot(h, a, i, old[i + 1]), a, old, i + 1, num)

\* delEdge truncating the slice without moving the later edges down.
delEdgeNoShift(h, n, label) ==
    LET es  == EdgesOf(h, n)
        num == Len(es)
        idx == Search(es, label, 0, num)
        a   == h.nodes[n].edges.arr
    IN  IF idx < num /\ es[idx + 1].label = label
        THEN LET h2 == StoreSlot(h, a, num, ZeroEdge)
             IN  StoreNode(h2, n, [h2.nodes[n] EXCEPT !.edges.len = num - 1])
        ELSE h

\* n.delEdge(label)
delEdge(h, n, label) ==
    LET es  == EdgesOf(h, n)
        num == Len(es)
        idx == Search(es, label, 0, num)
        a   == h.nodes[n].edges.arr
    IN  IF idx < num /\ es[idx + 1].label = label
        THEN LET h1 == shiftLeft(h, a, es, idx + 1, num)
                 h2 == StoreSlot(h1, a, num, ZeroEdge)
             IN  StoreNode(h2, n, [h2.nodes[n] EXCEPT !.edges.len = num - 1])
        ELSE h

\* ------------------------------------------------------------------ iradix.go: Txn internals
\* longestPrefix(k1, k2)
RECURSIVE longestPrefixFrom(_, _, _)
longestPrefixFrom(k1, k2, i) ==
    LET max == IF Len(k2) < Len(k1) THEN Len(k2) ELSE Len(k1)
    IN  IF i < max /\ k1[i + 1] = k2[i + 1]
        THEN longestPrefixFrom(k1, k2, i + 1)
        ELSE i

longestPrefix(k1, k2) ==
    longestPrefixFrom(k1, k2, 0)

\* concat as it would be if it put b before a.
concatSwapped(a, b) ==
    b \o a

\* concat as it would be if it returned a alone.
concatFirstOnly(a, b) ==
    a

\* concat(a, b)
concat(a, b) ==
    a \o b

\* writeNode as it would be if it handed back the node itself to be modified in
\* place instead of a copy.
writeNodeInPlace(h, n) ==
    [h |-> h, id |-> n]

\* writeNode as it would be if the copy kept n's edges slice (nc.edges = n.edges)
\* instead of copying it into a backing array of its own.
writeNodeSharedEdges(h, n) ==
    LET h2 == AllocNode(h, Node(h.nodes[n].leaf, h.nodes[n].prefix, h.nodes[n].edges))
    IN  [h |-> h2, id |-> Len(h2.nodes)]

\* writeNode as it would be if it also copied the node's first child and let the
\* copy's first edge lead to that copy.
writeNodeCopiesChild(h, n) ==
    LET es == EdgesOf(h, n)
        Own(hA) ==
            LET Fill(hB) ==
                    LET Made(hC) == [h |-> hC, id |-> Len(hC.nodes)]
                    IN  Made(AllocNode(hB, Node(h.nodes[n].leaf, h.nodes[n].prefix,
                                                [arr |-> Len(hB.arrs), len |-> Len(es)])))
            IN  Fill(AllocArr(hA, <<edge(es[1].label, Len(hA.nodes))>> \o Tail(es)))
    IN  IF Len(es) = 0
        THEN LET Made(hC) == [h |-> hC, id |-> Len(hC.nodes)]
             IN  Made(AllocNode(h, Node(h.nodes[n].leaf, h.nodes[n].prefix, NilEdges)))
        ELSE Own(AllocNode(h, h.nodes[es[1].node]))

\* t.writeNode(n): a fresh node with n's leaf, a copy of n's prefix and a copy of
\* n's edges in a backing array of its own.  Result: the heap and the new address.
writeNode(h, n) ==
    LET es == EdgesOf(h, n)
        h1 == IF Len(es) # 0 THEN AllocArr(h, es) ELSE h
        sl == IF Len(es) # 0 THEN [arr |-> Len(h1.arrs), len |-> Len(es)] ELSE NilEdges
        h2 == AllocNode(h1, Node(h.nodes[n].leaf, h.nodes[n].prefix, sl))
    IN  [h |-> h2, id |-> Len(h2.nodes)]

\* mergeChild that leaves the node as it is
mergeChildSkip(h, n) ==
    h

\* mergeChild as it would be if it took the child's prefix and edges but not its
\* leaf.
mergeChildNoLeaf(h, n) ==
    IF Len(EdgesOf(h, n)) = 0 THEN [h EXCEPT !.panic = TRUE]
    ELSE
    LET child == EdgesOf(h, n)[1].node
        ces   == EdgesOf(h, child)
        h1    == StoreNode(h, n, [h.nodes[n] EXCEPT
                                     !.prefix = concat(h.nodes[n].prefix, h.nodes[child].prefix)])
    IN  IF Len(ces) # 0
        THEN LET h3 == AllocArr(h1, ces)
             IN  StoreNode(h3, n, [h3.nodes[n] EXCEPT
                                      !.edges = [arr |-> Len(h3.arrs), len |-> Len(ces)]])
        ELSE StoreNode(h1, n, [h1.nodes[n] EXCEPT !.edges = NilEdges])

\* t.mergeChild(n): n absorbs the prefix, leaf and (a copy of) the edges of its
\* only child.  n.edges[0] on a node without edges is an index-out-of-range panic.
mergeChild(h, n) ==
    IF Len(EdgesOf(h, n)) = 0 THEN [h EXCEPT !.panic = TRUE]
    ELSE
    LET child == EdgesOf(h, n)[1].node
        ces   == EdgesOf(h, child)
        h1    == StoreNode(h, n, [h.nodes[n] EXCEPT
                                     !.prefix = concat(h.nodes[n].prefix, h.nodes[child].prefix)])
        h2    == StoreNode(h1, n, [h1.nodes[n] EXCEPT !.leaf = h.nodes[child].leaf])
    IN  IF Len(ces) # 0
        THEN LET h3 == AllocArr(h2, ces)
             IN  StoreNode(h3, n, [h3.nodes[n] EXCEPT
                                      !.edges = [arr |-> Len(h3.arrs), len |-> Len(ces)]])
        ELSE StoreNode(h2, n, [h2.nodes[n] EXCEPT !.edges = NilEdges])

\* nc.edges[idx].node = newChild (0-based idx; out of range is a panic).
setEdgeNode(h, n, idx, child) ==
    LET es == EdgesOf(h, n)
    IN  IF idx >= 0 /\ idx < Len(es)
        THEN StoreSlot(h, h.nodes[n].edges.arr, idx + 1, edge(es[idx + 1].label, child))
        ELSE [h EXCEPT !.panic = TRUE]

\* The "Split the node" part of t.insert: n's edge for search[0] leads to child,
\* whose prefix shares only commonPrefix bytes with search.  search[:commonPrefix]
\* and modChild.prefix[commonPrefix] out of range are panics (modChild.prefix is
\* a copy of child.prefix).
insertSplit(h, n, child, k, search, v, commonPrefix) ==
    IF commonPrefix > Len(search) \/ commonPrefix >= Len(h.nodes[child].prefix)
    THEN [h |-> [h EXCEPT !.panic = TRUE], node |-> Nil, old |-> NilVal, upd |-> FALSE]
    ELSE
    LET leaf == leafNode(k, v)
        rest == From(search, commonPrefix)
        \* c1: nc := t.writeNode(n)
        Split(c1) ==
            LET \* h2: splitNode := &Node{prefix: search[:commonPrefix]}
                Replace(h2) ==
                    LET splitNode == Len(h2.nodes)
                        \* c4: modChild := t.writeNode(child)
                        Restore(c4) ==
                            LET \* h5: splitNode.addEdge(edge{modChild.prefix[commonPrefix], modChild})
                                Trim(h5) ==
                                    LET \* h6: modChild.prefix = modChild.prefix[commonPrefix:]
                                        AddLeaf(h6) ==
                                            IF Len(rest) = 0
                                            THEN [h |-> StoreNode(h6, splitNode,
                                                          [h6.nodes[splitNode] EXCEPT !.leaf = leaf]),
                                                  node |-> c1.id, old |-> NilVal, upd |-> FALSE]
                                            ELSE LET \* h7: &Node{leaf: leaf, prefix: search}
                                                     Link(h7) ==
                                                         [h |-> addEdge(h7, splitNode,
                                                                        edge(rest[1], Len(h7.nodes))),
                                                          node |-> c1.id, old |-> NilVal,
                                                          upd |-> FALSE]
                                                 IN  Link(AllocNode(h6, Node(leaf, rest, NilEdges)))
                                    IN  AddLeaf(StoreNode(h5, c4.id, [h5.nodes[c4.id] EXCEPT
                                                             !.prefix = From(@, commonPrefix)]))
                            IN  Trim(addEdge(c4.h, splitNode,
                                             edge(c4.h.nodes[c4.id].prefix[commonPrefix + 1], c4.id)))
                    IN  Restore(writeNode(replaceEdge(h2, c1.id, edge(search[1], splitNode)), child))
            IN  Replace(AllocNode(c1.h, Node(NilLeaf, SubSeq(search, 1, commonPrefix), NilEdges)))
    IN  Split(writeNode(h, n))

\* t.insert(n, k, search, v): (new node, old value, did update).
RECURSIVE insert(_, _, _, _, _)
insert(h, n, k, search, v) ==
    IF Len(search) = 0
    THEN LET \* c: nc := t.writeNode(n)
             SetLeaf(c) ==
                 [h    |-> StoreNode(c.h, c.id, [c.h.nodes[c.id] EXCEPT !.leaf = leafNode(k, v)]),
                  node |-> c.id,
                  old  |-> IF isLeaf(h, n) THEN h.nodes[n].leaf.val ELSE NilVal,
                  upd  |-> isLeaf(h, n)]
         IN  SetLeaf(writeNode(h, n))
    ELSE
    LET \* ge: idx, child := n.getEdge(search[0])
        Descend(ge) ==
            IF ge.node = Nil
            THEN LET \* h1: the heap with the new leaf node, e: the edge to it
                     Copy(h1, e) ==
                         LET Add(c) ==
                                 [h |-> addEdge(c.h, c.id, e), node |-> c.id,
                                  old |-> NilVal, upd |-> FALSE]
                         IN  Add(writeNode(h1, n))
                     Fresh(h1) == Copy(h1, edge(search[1], Len(h1.nodes)))
                 IN  Fresh(AllocNode(h, Node(leafNode(k, v), search, NilEdges)))
            ELSE
            LET commonPrefix == longestPrefix(search, h.nodes[ge.node].prefix)
                \* r: newChild, oldVal, didUpdate := t.insert(child, k, search, v)
                Relink(r) ==
                    IF r.node # Nil
                    THEN LET Set(c) ==
                                 [r EXCEPT !.h = setEdgeNode(c.h, c.id, ge.idx, r.node),
                                           !.node = c.id]
                         IN  Set(writeNode(r.h, n))
                    ELSE r
            IN  IF commonPrefix = Len(h.nodes[ge.node].prefix)
                THEN Relink(insert(h, ge.node, k, From(search, commonPrefix), v))
                ELSE insertSplit(h, n, ge.node, k, search, v, commonPrefix)
    IN  Descend(getEdge(h, n, search[1]))

\* t.delete(n, search) for a Txn whose working root is root: (new node, old leaf).
RECURSIVE delete(_, _, _, _)
delete(h, root, n, search) ==
    IF Len(search) = 0
    THEN IF ~isLeaf(h, n)
         THEN [h |-> h, node |-> Nil, leaf |-> NilLeaf]
         ELSE LET \* h1: the heap after nc.leaf = nil on the copy nc
                  Merge(h1, nc) ==
                      [h    |-> IF n # root /\ Len(EdgesOf(h1, nc)) = 1
                                THEN mergeChild(h1, nc)
                                ELSE h1,
                       node |-> nc,
                       leaf |-> h.nodes[n].leaf]
                  \* c: nc := t.writeNode(n)
                  Unset(c) ==
                      Merge(StoreNode(c.h, c.id, [c.h.nodes[c.id] EXCEPT !.leaf = NilLeaf]), c.id)
              IN  Unset(writeNode(h, n))
    ELSE
    LET label == search[1]
        \* ge: idx, child := n.getEdge(label)
        Descend(ge) ==
            IF ge.node = Nil \/ ~HasPrefix(search, h.nodes[ge.node].prefix)
            THEN [h |-> h, node |-> Nil, leaf |-> NilLeaf]
            ELSE
            LET \* r: newChild, leaf := t.delete(child, search)
                Relink(r) ==
                    IF r.node = Nil
                    THEN [h |-> r.h, node |-> Nil, leaf |-> NilLeaf]
                    ELSE
                    LET \* h1: the heap after nc.delEdge(label) on the copy nc
                        Merge(h1, nc) ==
                            [h    |-> IF /\ n # root
                                         /\ Len(EdgesOf(h1, nc)) = 1
                                         /\ ~isLeaf(h1, nc)
                                      THEN mergeChild(h1, nc)
                                      ELSE h1,
                             node |-> nc,
                             leaf |-> r.leaf]
                        \* c: nc := t.writeNode(n)
                        Update(c) ==
                            IF ~r.h.nodes[r.node].leaf.isSet /\ Len(EdgesOf(r.h, r.node)) = 0
                            THEN Merge(delEdge(c.h, c.id, label), c.id)
                            ELSE [h    |-> setEdgeNode(c.h, c.id, ge.idx, r.node),
                                  node |-> c.id,
                                  leaf |-> r.leaf]
                    IN  Update(writeNode(r.h, n))
            IN  Relink(delete(h, root, ge.node, From(search, Len(h.nodes[ge.node].prefix))))
    IN  Descend(getEdge(h, n, label))

\* ------------------------------------------------------------------ DeletePrefix (spec section 4.4)
\* The recursive descent of DeletePrefix on node n with search left of the
\* prefix, for a Txn whose working root is root: (heap, new node or nil).  Where
\* the prefix ends the node's copy is left with neither leaf nor edges (nothing
\* is removed from a node that has neither); the parent drops the edge to an
\* emptied child and follows the merge-child rule; the ancestors are path-copied.
RECURSIVE deletePrefix(_, _, _, _)
deletePrefix(h, root, n, search) ==
    IF Len(search) = 0
    THEN IF ~isLeaf(h, n) /\ Len(EdgesOf(h, n)) = 0
         THEN [h |-> h, node |-> Nil]
         ELSE LET Clear(c) ==
                      [h    |-> StoreNode(c.h, c.id, [c.h.nodes[c.id] EXCEPT
                                                         !.leaf = NilLeaf, !.edges = NilEdges]),
                       node |-> c.id]
              IN  Clear(writeNode(h, n))
    ELSE
    LET label == search[1]
        Descend(ge) ==
            IF \/ ge.node = Nil
               \/ /\ ~HasPrefix(h.nodes[ge.node].prefix, search)
                  /\ ~HasPrefix(search, h.nodes[ge.node].prefix)
            THEN [h |-> h, node |-> Nil]
            ELSE
            LET Relink(r) ==
                    IF r.node = Nil
                    THEN [h |-> r.h, node |-> Nil]
                    ELSE
                    LET Merge(h1, nc) ==
                            [h    |-> IF /\ n # root
                                         /\ Len(EdgesOf(h1, nc)) = 1
                                         /\ ~isLeaf(h1, nc)
                                      THEN mergeChild(h1, nc)
                                      ELSE h1,
                             node |-> nc]
                        Update(c) ==
                            IF ~r.h.nodes[r.node].leaf.isSet /\ Len(EdgesOf(r.h, r.node)) = 0
                            THEN Merge(delEdge(c.h, c.id, label), c.id)
                            ELSE [h    |-> setEdgeNode(c.h, c.id, ge.idx, r.node),
                                  node |-> c.id]
                    IN  Update(writeNode(r.h, n))
            IN  Relink(deletePrefix(h, root, ge.node,
                           IF Len(h.nodes[ge.node].prefix) > Len(search)
                           THEN <<>>
                           ELSE From(search, Len(h.nodes[ge.node].prefix))))
    IN  Descend(getEdge(h, n, label))

\* t.DeletePrefix(prefix) on Txn t: the heap, the Txn and whether anything was
\* removed.
TxnDeletePrefix(h, t, prefix) ==
    LET Return(r) ==
            [h  |-> r.h,
             t  |-> IF r.node # Nil THEN [t EXCEPT !.root = r.node] ELSE t,
             ok |-> r.node # Nil]
    IN  Return(deletePrefix(h, t.root, t.root, prefix))

\* ------------------------------------------------------------------ node.go: reads
\* GetStep as it would be if it consumed the child's prefix without comparing it
\* with the search key.
GetStepNoCompare(h, st) ==
    IF Len(st.search) = 0
    THEN IF isLeaf(h, st.curr)
         THEN [st EXCEPT !.done = TRUE, !.val = h.nodes[st.curr].leaf.val, !.ok = TRUE]
         ELSE [st EXCEPT !.done = TRUE]
    ELSE LET c == getEdge(h, st.curr, st.search[1]).node
         IN  IF c = Nil
             THEN [st EXCEPT !.done = TRUE, !.curr = Nil]
             ELSE [st EXCEPT !.curr = c,
                             !.search = From(st.search, Len(h.nodes[c].prefix))]

\* One iteration of the loop of Node.Get, on its locals curr and search.
GetStep(h, st) ==
    IF Len(st.search) = 0
    THEN IF isLeaf(h, st.curr)
         THEN [st EXCEPT !.done = TRUE, !.val = h.nodes[st.curr].leaf.val, !.ok = TRUE]
         ELSE [st EXCEPT !.done = TRUE]
    ELSE LET c == getEdge(h, st.curr, st.search[1]).node
         IN  IF c = Nil
             THEN [st EXCEPT !.done = TRUE, !.curr = Nil]
             ELSE IF HasPrefix(st.search, h.nodes[c].prefix)
                  THEN [st EXCEPT !.curr = c,
                                  !.search = From(st.search, Len(h.nodes[c].prefix))]
                  ELSE [st EXCEPT !.done = TRUE, !.curr = c]

\* The locals of Node.Get(k) on node n before the first iteration.
GetStart(n, k) ==
    [curr |-> n, search |-> k, done |-> FALSE, val |-> NilVal, ok |-> FALSE]

RECURSIVE GetRun(_, _)
GetRun(h, st) ==
    IF st.done THEN [val |-> st.val, ok |-> st.ok] ELSE GetRun(h, GetStep(h, st))

\* n.Get(k): (value, found).
Get(h, n, k) ==
    GetRun(h, GetStart(n, k))

\* n.LongestPrefix(k) from its locals curr and search, last being the deepest
\* leaf met so far (spec section 4.5): (key, value, found).
RECURSIVE LongestPrefix(_, _, _, _)
LongestPrefix(h, curr, search, last) ==
    LET Step(l) ==
            LET Return == IF l.isSet THEN [key |-> l.key, val |-> l.val, ok |-> TRUE]
                          ELSE [key |-> <<>>, val |-> NilVal, ok |-> FALSE]
                Consume(c) ==
                    IF c = Nil THEN Return
                    ELSE IF HasPrefix(search, h.nodes[c].prefix)
                         THEN LongestPrefix(h, c, From(search, Len(h.nodes[c].prefix)), l)
                         ELSE Return
            IN  IF Len(search) = 0 THEN Return
                ELSE Consume(getEdge(h, curr, search[1]).node)
    IN  Step(IF isLeaf(h, curr) THEN h.nodes[curr].leaf ELSE last)

\* n.Minimum(): (key, value, found), descending the first edges until a leaf.
RECURSIVE Minimum(_, _)
Minimum(h, n) ==
    IF isLeaf(h, n)
    THEN [key |-> h.nodes[n].leaf.key, val |-> h.nodes[n].leaf.val, ok |-> TRUE]
    ELSE IF Len(EdgesOf(h, n)) > 0
         THEN Minimum(h, EdgesOf(h, n)[1].node)
         ELSE [key |-> <<>>, val |-> NilVal, ok |-> FALSE]

\* Maximum as it would be if it returned the leaf of the current node before
\* looking at its edges, the way Minimum does.
RECURSIVE MaximumLeafFirst(_, _)
MaximumLeafFirst(h, n) ==
    IF isLeaf(h, n)
    THEN [key |-> h.nodes[n].leaf.key, val |-> h.nodes[n].leaf.val, ok |-> TRUE]
    ELSE IF Len(EdgesOf(h, n)) > 0
         THEN MaximumLeafFirst(h, EdgesOf(h, n)[Len(EdgesOf(h, n))].node)
         ELSE [key |-> <<>>, val |-> NilVal, ok |-> FALSE]

\* n.Maximum(): (key, value, found), descending the last edges while there are
\* any, then the leaf of the node reached.
RECURSIVE Maximum(_, _)
Maximum(h, n) ==
    IF Len(EdgesOf(h, n)) > 0
    THEN Maximum(h, EdgesOf(h, n)[Len(EdgesOf(h, n))].node)
    ELSE IF isLeaf(h, n)
         THEN [key |-> h.nodes[n].leaf.key, val |-> h.nodes[n].leaf.val, ok |-> TRUE]
         ELSE [key |-> <<>>, val |-> NilVal, ok |-> FALSE]

\* A WalkFn that records the pairs it is called with and returns true (abort) on
\* its stop-th call; stop = 0 never aborts.
WalkFn(st, leaf) ==
    LET out == Append(st.out, <<leaf.key, leaf.val>>)
    IN  [st |-> [st EXCEPT !.out = out], abort |-> Len(out) = st.stop]

NewWalk(stop) ==
    [out |-> <<>>, stop |-> stop]

RECURSIVE recursiveWalk(_, _, _)
RECURSIVE walkEdges(_, _, _, _)
\* walkEdges as it would be if the loop went on after a child's walk reported
\* an abort.
RECURSIVE walkEdgesIgnoreAbort(_, _, _, _)
walkEdgesIgnoreAbort(h, es, i, st) ==
    IF i > Len(es) THEN [st |-> st, abort |-> FALSE]
    ELSE walkEdgesIgnoreAbort(h, es, i + 1, recursiveWalk(h, es[i].node, st).st)

\* recursiveWalk(n, fn): the leaf first, then the children in edge order.
recursiveWalk(h, n, st) ==
    LET f == IF h.nodes[n].leaf.isSet
             THEN WalkFn(st, h.nodes[n].leaf)
             ELSE [st |-> st, abort |-> FALSE]
    IN  IF f.abort THEN f ELSE walkEdges(h, EdgesOf(h, n), 1, f.st)

\* for _, e := range n.edges { if recursiveWalk(e.node, fn) { return true } }
walkEdges(h, es, i, st) ==
    IF i > Len(es) THEN [st |-> st, abort |-> FALSE]
    ELSE LET r == recursiveWalk(h, es[i].node, st)
         IN  IF r.abort THEN r ELSE walkEdges(h, es, i + 1, r.st)

\* n.Walk(fn) with a never-aborting fn: the pairs passed to fn, in order.
Walk(h, n) ==
    recursiveWalk(h, n, NewWalk(0)).st.out

\* reverseRecursiveWalk(n, fn): the leaf first, then the children from the last
\* edge to the first.
RECURSIVE reverseRecursiveWalk(_, _, _)
RECURSIVE reverseWalkEdges(_, _, _, _)
reverseRecursiveWalk(h, n, st) ==
    LET Children(f) ==
            IF f.abort THEN f ELSE reverseWalkEdges(h, EdgesOf(h, n), Len(EdgesOf(h, n)), f.st)
    IN  Children(IF h.nodes[n].leaf.isSet
                 THEN WalkFn(st, h.nodes[n].leaf)
                 ELSE [st |-> st, abort |-> FALSE])

\* for i := len(n.edges) - 1; i >= 0; i-- { if reverseRecursiveWalk(...) { return true } }
reverseWalkEdges(h, es, i, st) ==
    IF i < 1 THEN [st |-> st, abort |-> FALSE]
    ELSE LET Rest(r) == IF r.abort THEN r ELSE reverseWalkEdges(h, es, i - 1, r.st)
         IN  Rest(reverseRecursiveWalk(h, es[i].node, st))

\* WalkBackwards as it would be if it called recursiveWalk.
WalkBackwardsForward(h, n, st) ==
    recursiveWalk(h, n, st).st

\* n.WalkBackwards(fn): the callback's record after the walk.
WalkBackwards(h, n, st) ==
    reverseRecursiveWalk(h, n, st).st

\* WalkPrefix as it would be without the case of a prefix that ends inside the
\* child's prefix.
RECURSIVE WalkPrefixNoMidEdge(_, _, _, _)
WalkPrefixNoMidEdge(h, curr, search, st) ==
    IF Len(search) = 0 THEN recursiveWalk(h, curr, st).st
    ELSE LET Consume(c) ==
                 IF c = Nil THEN st
                 ELSE IF HasPrefix(search, h.nodes[c].prefix)
                      THEN WalkPrefixNoMidEdge(h, c, From(search, Len(h.nodes[c].prefix)), st)
                      ELSE st
         IN  Consume(getEdge(h, curr, search[1]).node)

\* n.WalkPrefix(prefix, fn) from its locals curr and search: the callback's
\* record after the walk.
RECURSIVE WalkPrefix(_, _, _, _)
WalkPrefix(h, curr, search, st) ==
    IF Len(search) = 0 THEN recursiveWalk(h, curr, st).st
    ELSE LET Consume(c) ==
                 IF c = Nil THEN st
                 ELSE IF HasPrefix(search, h.nodes[c].prefix)
                      THEN WalkPrefix(h, c, From(search, Len(h.nodes[c].prefix)), st)
                      ELSE IF HasPrefix(h.nodes[c].prefix, search)
                           THEN recursiveWalk(h, c, st).st
                           ELSE st
         IN  Consume(getEdge(h, curr, search[1]).node)

\* WalkPath as it would be if it consumed the child's prefix without comparing
\* it with the path.
RECURSIVE WalkPathNoCompare(_, _, _, _)
WalkPathNoCompare(h, curr, search, st) ==
    LET Step(f) ==
            IF f.abort \/ Len(search) = 0 THEN f.st
            ELSE LET Consume(c) ==
                         IF c = Nil THEN f.st
                         ELSE WalkPathNoCompare(h, c, From(search, Len(h.nodes[c].prefix)), f.st)
                 IN  Consume(getEdge(h, curr, search[1]).node)
    IN  Step(IF h.nodes[curr].leaf.isSet
             THEN WalkFn(st, h.nodes[curr].leaf)
             ELSE [st |-> st, abort |-> FALSE])

\* n.WalkPath(path, fn) from its locals curr and search: the callback's record
\* after the walk.
RECURSIVE WalkPath(_, _, _, _)
WalkPath(h, curr, search, st) ==
    LET Step(f) ==
            IF f.abort \/ Len(search) = 0 THEN f.st
            ELSE LET Consume(c) ==
                         IF c = Nil THEN f.st
                         ELSE IF HasPrefix(search, h.nodes[c].prefix)
                              THEN WalkPath(h, c, From(search, Len(h.nodes[c].prefix)), f.st)
                              ELSE f.st
                 IN  Consume(getEdge(h, curr, search[1]).node)
    IN  Step(IF h.nodes[curr].leaf.isSet
             THEN WalkFn(st, h.nodes[curr].leaf)
             ELSE [st |-> st, abort |-> FALSE])

\* ------------------------------------------------------------------ Iterator (spec section 4.6)
\* bytes.Compare(a, b) < 0: a < b in lexicographic byte order.
LexLess(a, b) ==
    \/ Len(a) < Len(b) /\ SubSeq(b, 1, Len(a)) = a
    \/ \E i \in 1..Len(a) :
          /\ i <= Len(b)
          /\ SubSeq(a, 1, i - 1) = SubSeq(b, 1, i - 1)
          /\ a[i] < b[i]

\* getLowerBoundEdge as it would be if it returned an edge only on an exact
\* match of the label, as getEdge does.
getLowerBoundEdgeExact(h, n, label) ==
    getEdge(h, n, label)

\* n.getLowerBoundEdge(label): (idx, child) of the first edge whose label is
\* >= label, or (-1, nil).
getLowerBoundEdge(h, n, label) ==
    LET es  == EdgesOf(h, n)
        num == Len(es)
        idx == Search(es, label, 0, num)
    IN  IF idx < num THEN [idx |-> idx, node |-> es[idx + 1].node]
        ELSE [idx |-> -1, node |-> Nil]

\* A frame of the iterator's stack: a node and the index (0-based) of its next
\* edge to visit; the node's leaf is emitted when the frame is taken with index 0.
Frame(n, i) ==
    [node |-> n, idx |-> i]

\* SeekLowerBound(key) from node n with search left of the key: the stack that
\* makes the following Next() return the smallest key >= key.  Later siblings
\* of the chosen edge stay candidates; a subtree known to lie above the key is
\* pushed whole; a child whose prefix sorts below the key's slice is skipped.
RECURSIVE SeekLowerBound(_, _, _, _)
SeekLowerBound(h, n, search, stack) ==
    IF Len(search) = 0 THEN Append(stack, Frame(n, 0))
    ELSE LET Choose(lb) ==
                 IF lb.node = Nil THEN stack
                 ELSE IF HasPrefix(search, h.nodes[lb.node].prefix)
                      THEN SeekLowerBound(h, lb.node,
                                          From(search, Len(h.nodes[lb.node].prefix)),
                                          Append(stack, Frame(n, lb.idx + 1)))
                      ELSE IF LexLess(h.nodes[lb.node].prefix, search)
                           THEN Append(stack, Frame(n, lb.idx + 1))
                           ELSE Append(Append(stack, Frame(n, lb.idx + 1)), Frame(lb.node, 0))
         IN  Choose(getLowerBoundEdge(h, n, search[1]))

\* Next(): pop a frame; if it has an edge left, push it back with the next
\* index and push the edge's child with index 0; emit the node's leaf if the
\* frame had index 0 and the node has one, else go on.  (stack, key, value, ok)
RECURSIVE IteratorNext(_, _)
IteratorNext(h, stack) ==
    IF stack = <<>> THEN [stack |-> <<>>, key |-> <<>>, val |-> NilVal, ok |-> FALSE]
    ELSE LET top  == stack[Len(stack)]
             rest == SubSeq(stack, 1, Len(stack) - 1)
             es   == EdgesOf(h, top.node)
             Emit(st) ==
                 IF top.idx = 0 /\ isLeaf(h, top.node)
                 THEN [stack |-> st, key |-> h.nodes[top.node].leaf.key,
                       val |-> h.nodes[top.node].leaf.val, ok |-> TRUE]
                 ELSE IteratorNext(h, st)
         IN  Emit(IF top.idx < Len(es)
                  THEN rest \o << Frame(top.node, top.idx + 1), Frame(es[top.idx + 1].node, 0) >>
                  ELSE rest)

\* for { key, val, ok := iter.Next(); if !ok { break }; out = append(out, ...) }
RECURSIVE Drain(_, _, _)
Drain(h, stack, out) ==
    LET Collect(r) == IF r.ok THEN Drain(h, r.stack, Append(out, <<r.key, r.val>>)) ELSE out
    IN  Collect(IteratorNext(h, stack))

\* CopyNode(n) of the tests: a deep copy of the structure under n (prefixes,
\* leaves, edge labels and children, recursively), as a value.
RECURSIVE CopyNode(_, _)
CopyNode(h, n) ==
    LET es == EdgesOf(h, n)
    IN  [prefix |-> h.nodes[n].prefix,
         leaf   |-> h.nodes[n].leaf,
         edges  |-> [i \in 1..Len(es) |->
                        [label |-> es[i].label, node |-> CopyNode(h, es[i].node)]]]

\* recursiveWalk as the steps a reader takes: the pairs passed to fn so far, a
\* stack with one frame per active call (the edges slice its range loop runs
\* over, read once, and the index of the next edge), and whether the walk ended
\* or hit a nil node.
WalkVisit(h, w, n) ==
    IF n = Nil THEN [w EXCEPT !.done = TRUE, !.fault = TRUE]
    ELSE [w EXCEPT
             !.out   = IF h.nodes[n].leaf.isSet
                       THEN Append(@, <<h.nodes[n].leaf.key, h.nodes[n].leaf.val>>)
                       ELSE @,
             !.stack = Append(@, [arr |-> h.nodes[n].edges.arr,
                                  len |-> h.nodes[n].edges.len, i |-> 1])]

\* n.Walk(fn) before its first step.
WalkStart ==
    [out |-> <<>>, stack |-> <<>>, done |-> FALSE, fault |-> FALSE]

\* One step of the walk: the next edge of the innermost loop is read from its
\* backing array and its node visited, or the loop ends and the call returns.
WalkStep(h, w) ==
    IF w.stack = <<>> THEN [w EXCEPT !.done = TRUE]
    ELSE LET top == w.stack[Len(w.stack)]
         IN  IF top.i > top.len
             THEN [w EXCEPT !.stack = SubSeq(@, 1, Len(@) - 1)]
             ELSE WalkVisit(h, [w EXCEPT !.stack[Len(w.stack)].i = top.i + 1],
                            h.arrs[top.arr][top.i].node)

\* ------------------------------------------------------------------ iradix.go: Tree and Txn
\* t.Txn(): a transaction on the tree whose root is root.
Txn(root) ==
    [root |-> root, orig |-> root]

\* Txn.Insert as it would be if it did not store the new root in the Txn.
TxnInsertKeepsRoot(h, t, k, v) ==
    LET Return(r) == [h |-> r.h, t |-> t, val |-> r.old, ok |-> r.upd]
    IN  Return(insert(h, t.root, k, k, v))

\* Txn.Insert as it would be if it returned the value now stored instead of the
\* one that was replaced.
TxnInsertReturnsNew(h, t, k, v) ==
    LET Return(r) ==
            [h   |-> r.h,
             t   |-> IF r.node # Nil THEN [t EXCEPT !.root = r.node] ELSE t,
             val |-> IF r.upd THEN v ELSE NilVal,
             ok  |-> r.upd]
    IN  Return(insert(h, t.root, k, k, v))

\* t.Insert(k, v) on Txn t: the heap, the Txn and the returned (old value, did update).
TxnInsert(h, t, k, v) ==
    LET \* r: newRoot, oldVal, didUpdate := t.insert(t.root, k, k, v)
        Return(r) ==
            [h   |-> r.h,
             t   |-> IF r.node # Nil THEN [t EXCEPT !.root = r.node] ELSE t,
             val |-> r.old,
             ok  |-> r.upd]
    IN  Return(insert(h, t.root, k, k, v))

\* t.Delete(k) on Txn t: the heap, the Txn and the returned (old value, was set).
TxnDelete(h, t, k) ==
    LET \* r: newRoot, leaf := t.delete(t.root, k)
        Return(r) ==
            [h   |-> r.h,
             t   |-> IF r.node # Nil THEN [t EXCEPT !.root = r.node] ELSE t,
             val |-> IF r.leaf.isSet THEN r.leaf.val ELSE NilVal,
             ok  |-> r.leaf.isSet]
    IN  Return(delete(h, t.root, t.root, k))

\* Commit as it would be if it always reported a mutation.
CommitReportsTrue(t) ==
    [root |-> t.root, mutated |-> TRUE]

\* t.Commit(): (root of the new Tree, mutated).
Commit(t) ==
    [root |-> t.root, mutated |-> t.root # t.orig]

\* Tree.Insert(k, v) on the tree whose root is root.
TreeInsertOp(h, root, k, v) ==
    LET Return(r) == [h |-> r.h, root |-> Commit(r.t).root, val |-> r.val, ok |-> r.ok]
    IN  Return(TxnInsert(h, Txn(root), k, v))

\* Tree.DeletePrefix(prefix) on the tree whose root is root (spec section 6).
TreeDeletePrefixOp(h, root, prefix) ==
    LET Return(r) == [h |-> r.h, root |-> Commit(r.t).root, ok |-> r.ok]
    IN  Return(TxnDeletePrefix(h, Txn(root), prefix))

\* Tree.Delete(k) on the tree whose root is root.
TreeDeleteOp(h, root, k) ==
    LET Return(r) == [h |-> r.h, root |-> Commit(r.t).root, val |-> r.val, ok |-> r.ok]
    IN  Return(TxnDelete(h, Txn(root), k))

\* New(): an empty tree; the root is the last node of the heap.
New(h) ==
    AllocNode(h, Node(NilLeaf, <<>>, NilEdges))

\* ------------------------------------------------------------------ reference map
\* The map a test drives beside the tree: key -> value, NilVal when absent.
RefEmpty ==
    [k \in Keys |-> NilVal]

RefApply(ref, o) ==
    IF o.op = "insert" THEN [ref EXCEPT ![o.key] = o.val] ELSE [ref EXCEPT ![o.key] = NilVal]

RECURSIVE RefApplyAll(_, _)
RefApplyAll(ref, log) ==
    IF log = <<>> THEN ref ELSE RefApplyAll(RefApply(ref, Head(log)), Tail(log))

RefGet(ref, k) ==
    [val |-> ref[k], ok |-> ref[k] # NilVal]

\* What Get reports for every key on the tree under root.
Contents(h, root) ==
    [k \in Keys |-> Get(h, root, k)]

\* ------------------------------------------------------------------ state
VARIABLES
    heap,   \* the node graph: [nodes, arrs, w, panic]; w holds the locations
            \*   written by the last Insert/Delete call
    trees,  \* the committed Trees held by the program, oldest first:
            \*   root, and what the holder recorded when it got the Tree:
            \*   snap (CopyNode of the root), gets (what Get reported for
            \*   every key) and ref (the reference map)
    txns,   \* TxnIds -> the Txn: open, root, orig, committed, and beside it
            \*   mutated and tree (what Commit returned: the flag and the
            \*   index of the Tree in trees), base (reference map of the tree
            \*   it was started from) and log (the Insert/Delete calls made on
            \*   it, in order)
    calls,  \* the Insert/Delete calls made so far and what each returned
    nops,   \* Insert/Delete calls made so far
    reader, \* a reader of the loaded tree: the locals of its Get or Walk, what
            \*   the same read returns when nothing runs beside it, and how many
            \*   writer calls had been made when it started
    query   \* the query run on the latest tree and what it returned: op, on
            \*   (index of the tree), arg, stop (the callback aborts on its
            \*   stop-th call; 0: never), out (the pairs passed to the callback
            \*   or returned), ok, root (of the tree returned, if any)

vars == <<heap, trees, txns, calls, nops, reader, query>>

NoQuery ==
    [op |-> "none", on |-> 0, arg |-> <<>>, stop |-> 0, out |-> <<>>, ok |-> FALSE,
     root |-> Nil]

IdleReader ==
    [kind |-> "idle", get |-> GetStart(Nil, <<>>), walk |-> WalkStart,
     expectGet |-> [val |-> NilVal, ok |-> FALSE], expectWalk |-> <<>>,
     began |-> 0]

NoTxn ==
    [open |-> FALSE, root |-> Nil, orig |-> Nil, committed |-> FALSE,
     mutated |-> FALSE, tree |-> 0, base |-> RefEmpty, log |-> <<>>]

\* A held Tree with the holder's records of it.
Held(h, root, ref) ==
    [root |-> root, snap |-> CopyNode(h, root), gets |-> Contents(h, root), ref |-> ref]

\* r := New(); for each key of S in ascending order: r, _, _ = r.Insert(key, 1)
RECURSIVE Load(_, _, _, _)
Load(h, root, S, i) ==
    IF i > Len(KeySeq) THEN [h |-> h, root |-> root]
    ELSE IF KeySeq[i] \in S
         THEN LET Rest(r) == Load(r.h, r.root, S, i + 1)
              IN  Rest(TreeInsertOp(h, root, KeySeq[i], 1))
         ELSE Load(h, root, S, i + 1)

\* The state after the load: the loaded tree is held, no call is recorded.
Loaded(S) ==
    LET Hold(l) ==
            /\ heap = [l.h EXCEPT !.w = {}]
            /\ trees = << Held(heap, l.root, [k \in Keys |-> IF k \in S THEN 1 ELSE NilVal]) >>
        Fill(h0) == Hold(Load(h0, Len(h0.nodes), S, 1))
    IN  /\ Fill(New(EmptyHeap))
        /\ calls = <<>>
        /\ nops = 0

Init ==
    /\ \E S \in SUBSET Keys : Loaded(S)
    /\ txns = [i \in TxnIds |-> NoTxn]
    /\ reader = IdleReader
    /\ query = NoQuery

\* The tree the program's variable r holds: the last one it got.
Latest ==
    trees[Len(trees)]

\* The value the n-th Insert call stores: the tests insert a running counter
\* (the loaded keys hold 1).
NextVal ==
    nops + 2

\* The record of a call of op on key k (value v) that acted on root in heap pre
\* and returned r; ref is the reference map before the call.
Call(op, on, id, k, v, pre, root, r, rootAfter, ref) ==
    [op |-> op, on |-> on, id |-> id, key |-> k, val |-> v,
     ret |-> r.val, ok |-> r.ok, rootBefore |-> root, rootAfter |-> rootAfter,
     ref |-> ref, walkBefore |-> Walk(pre, root),
     nodesBefore |-> Len(pre.nodes), arrsBefore |-> Len(pre.arrs)]

\* An operation starts with nothing written.
Start(h) ==
    [h EXCEPT !.w = {}]

\* r, old, ok = r.Insert(k, v); the earlier trees stay held.
TreeInsert(k, v) ==
    /\ nops < MaxOps
    /\ LET Return(r) ==
               /\ heap' = r.h
               /\ trees' = Append(trees, Held(r.h, r.root,
                                 RefApply(Latest.ref, [op |-> "insert", key |-> k, val |-> v])))
               /\ calls' = Append(calls, Call("insert", "tree", Len(trees), k, v, heap,
                                              Latest.root, r, r.root, Latest.ref))
       IN  Return(TreeInsertOp(Start(heap), Latest.root, k, v))
    /\ nops' = nops + 1
    /\ UNCHANGED <<txns, reader, query>>

\* r, old, ok = r.Delete(k)
TreeDelete(k) ==
    /\ nops < MaxOps
    /\ LET Return(r) ==
               /\ heap' = r.h
               /\ trees' = Append(trees, Held(r.h, r.root,
                                     RefApply(Latest.ref, [op |-> "delete", key |-> k])))
               /\ calls' = Append(calls, Call("delete", "tree", Len(trees), k, NilVal, heap,
                                              Latest.root, r, r.root, Latest.ref))
       IN  Return(TreeDeleteOp(Start(heap), Latest.root, k))
    /\ nops' = nops + 1
    /\ UNCHANGED <<txns, reader, query>>

Next ==
    \/ \E k \in Keys : TreeInsert(k, NextVal)
    \/ \E k \in Keys : TreeDelete(k)

Spec ==
    Init /\ [][Next]_vars

\* ------------------------------------------------------------------ two transactions
\* txn_i := r.Txn()
OpenTxn(root, ref) ==
    [open |-> TRUE, root |-> Txn(root).root, orig |-> Txn(root).orig,
     committed |-> FALSE, mutated |-> FALSE, tree |-> 0, base |-> ref, log |-> <<>>]

\* txn1 := r.Txn(); txn2 := r.Txn() on the loaded tree r (TestMergeChildVisibility).
InitTxn ==
    /\ \E S \in SUBSET Keys : Loaded(S)
    /\ txns = [i \in TxnIds |-> OpenTxn(trees[1].root, trees[1].ref)]
    /\ reader = IdleReader
    /\ query = NoQuery

\* The reference map of Txn i: its calls so far applied to the map of the tree
\* it was started from.
TxnRef(i) ==
    RefApplyAll(txns[i].base, txns[i].log)

\* old, ok := txn_i.Insert(k, v)
TxnInsertCall(i, k, v) ==
    /\ txns[i].open
    /\ nops < MaxTxnOps
    /\ LET t == [root |-> txns[i].root, orig |-> txns[i].orig]
           Return(r) ==
               /\ heap' = r.h
               /\ txns' = [txns EXCEPT ![i].root = r.t.root,
                                       ![i].log = Append(@, [op |-> "insert", key |-> k,
                                                             val |-> v])]
               /\ calls' = Append(calls, Call("insert", "txn", i, k, v, heap, t.root, r,
                                              r.t.root, TxnRef(i)))
       IN  Return(TxnInsert(Start(heap), t, k, v))
    /\ nops' = nops + 1
    /\ UNCHANGED <<trees, reader, query>>

\* old, ok := txn_i.Delete(k)
TxnDeleteCall(i, k) ==
    /\ txns[i].open
    /\ nops < MaxTxnOps
    /\ LET t == [root |-> txns[i].root, orig |-> txns[i].orig]
           Return(r) ==
               /\ heap' = r.h
               /\ txns' = [txns EXCEPT ![i].root = r.t.root,
                                       ![i].log = Append(@, [op |-> "delete", key |-> k])]
               /\ calls' = Append(calls, Call("delete", "txn", i, k, NilVal, heap, t.root, r,
                                              r.t.root, TxnRef(i)))
       IN  Return(TxnDelete(Start(heap), t, k))
    /\ nops' = nops + 1
    /\ UNCHANGED <<trees, reader, query>>

\* tree, mutated := txn_i.Commit(); the program holds the tree and is done with
\* the Txn.
TxnCommit(i) ==
    /\ txns[i].open
    /\ LET c == Commit([root |-> txns[i].root, orig |-> txns[i].orig])
       IN  /\ trees' = Append(trees, Held(heap, c.root, TxnRef(i)))
           /\ txns' = [txns EXCEPT ![i].committed = TRUE, ![i].open = FALSE,
                                   ![i].mutated = c.mutated, ![i].tree = Len(trees) + 1]
    /\ UNCHANGED <<heap, calls, nops, reader, query>>

NextTxn ==
    \/ \E i \in TxnIds, k \in Keys : TxnInsertCall(i, k, NextVal)
    \/ \E i \in TxnIds, k \in Keys : TxnDeleteCall(i, k)
    \/ \E i \in TxnIds : TxnCommit(i)

SpecTxn ==
    InitTxn /\ [][NextTxn]_vars

\* ------------------------------------------------------------------ a reader beside a writer
\* A goroutine calls r.Get(k) on the loaded tree r.
ReadGet(k) ==
    /\ reader.kind = "idle"
    /\ reader' = [reader EXCEPT !.kind = "get",
                                !.get = GetStart(trees[1].root, k),
                                !.expectGet = Get(heap, trees[1].root, k),
                                !.began = nops]
    /\ UNCHANGED <<heap, trees, txns, calls, nops, query>>

\* A goroutine calls r.Root().Walk(fn) on the loaded tree r: the root is visited.
ReadWalk ==
    /\ reader.kind = "idle"
    /\ reader' = [reader EXCEPT !.kind = "walk",
                                !.walk = WalkVisit(heap, WalkStart, trees[1].root),
                                !.expectWalk = Walk(heap, trees[1].root),
                                !.began = nops]
    /\ UNCHANGED <<heap, trees, txns, calls, nops, query>>

\* The reader's Get runs one iteration of its loop.
ReadGetStep ==
    /\ reader.kind = "get"
    /\ ~reader.get.done
    /\ reader' = [reader EXCEPT !.get = GetStep(heap, reader.get)]
    /\ UNCHANGED <<heap, trees, txns, calls, nops, query>>

\* The reader's Walk takes one step.
ReadWalkStep ==
    /\ reader.kind = "walk"
    /\ ~reader.walk.done
    /\ reader' = [reader EXCEPT !.walk = WalkStep(heap, reader.walk)]
    /\ UNCHANGED <<heap, trees, txns, calls, nops, query>>

\* The writer is Txn 1, started from the tree the reader reads; the reader's
\* steps fall anywhere between the writer's calls.
NextRead ==
    \/ \E k \in Keys : TxnInsertCall(1, k, NextVal)
    \/ \E k \in Keys : TxnDeleteCall(1, k)
    \/ \E k \in Keys : ReadGet(k)
    \/ ReadWalk
    \/ ReadGetStep
    \/ ReadWalkStep

SpecRead ==
    InitTxn /\ [][NextRead]_vars

\* ------------------------------------------------------------------ queries on the latest tree
\* The record of a query that returned (key, value, found).
Found(op, arg, r) ==
    [op |-> op, on |-> Len(trees), arg |-> arg, stop |-> 0,
     out |-> IF r.ok THEN << <<r.key, r.val>> >> ELSE <<>>, ok |-> r.ok, root |-> Nil]

\* k, v, ok := r.Root().Minimum()
QueryMinimum ==
    /\ query = NoQuery
    /\ query' = Found("Minimum", <<>>, Minimum(heap, Latest.root))
    /\ UNCHANGED <<heap, trees, txns, calls, nops, reader>>

\* k, v, ok := r.Root().Maximum()
QueryMaximum ==
    /\ query = NoQuery
    /\ query' = Found("Maximum", <<>>, Maximum(heap, Latest.root))
    /\ UNCHANGED <<heap, trees, txns, calls, nops, reader>>

\* The record of a walk op(arg, fn) whose fn left the record st.
Walked(op, arg, st) ==
    [op |-> op, on |-> Len(trees), arg |-> arg, stop |-> st.stop, out |-> st.out,
     ok |-> FALSE, root |-> Nil]

\* r.Root().Walk(fn), fn aborting on its stop-th call
QueryWalk(stop) ==
    /\ query = NoQuery
    /\ query' = Walked("Walk", <<>>, recursiveWalk(heap, Latest.root, NewWalk(stop)).st)
    /\ UNCHANGED <<heap, trees, txns, calls, nops, reader>>

\* r.Root().WalkBackwards(fn)
QueryWalkBackwards(stop) ==
    /\ query = NoQuery
    /\ query' = Walked("WalkBackwards", <<>>, WalkBackwards(heap, Latest.root, NewWalk(stop)))
    /\ UNCHANGED <<heap, trees, txns, calls, nops, reader>>

\* r.Root().WalkPrefix(p, fn)
QueryWalkPrefix(p, stop) ==
    /\ query = NoQuery
    /\ query' = Walked("WalkPrefix", p, WalkPrefix(heap, Latest.root, p, NewWalk(stop)))
    /\ UNCHANGED <<heap, trees, txns, calls, nops, reader>>

\* r.Root().WalkPath(p, fn)
QueryWalkPath(p, stop) ==
    /\ query = NoQuery
    /\ query' = Walked("WalkPath", p, WalkPath(heap, Latest.root, p, NewWalk(stop)))
    /\ UNCHANGED <<heap, trees, txns, calls, nops, reader>>

\* iter := r.Root().Iterator(); iter.SeekLowerBound(q); then Next() until it
\* reports exhaustion
QuerySeekLowerBound(q) ==
    /\ query = NoQuery
    /\ query' = [op |-> "SeekLowerBound", on |-> Len(trees), arg |-> q, stop |-> 0,
                 out |-> Drain(heap, SeekLowerBound(heap, Latest.root, q, <<>>), <<>>),
                 ok |-> FALSE, root |-> Nil]
    /\ UNCHANGED <<heap, trees, txns, calls, nops, reader>>

\* k, v, ok := r.Root().LongestPrefix(q)
QueryLongestPrefix(q) ==
    /\ query = NoQuery
    /\ query' = Found("LongestPrefix", q, LongestPrefix(heap, Latest.root, q, NilLeaf))
    /\ UNCHANGED <<heap, trees, txns, calls, nops, reader>>

\* r2, ok := r.DeletePrefix(p); r stays held
QueryDeletePrefix(p) ==
    /\ query = NoQuery
    /\ LET Return(r) ==
               /\ heap' = r.h
               /\ query' = [op |-> "DeletePrefix", on |-> Len(trees), arg |-> p, stop |-> 0,
                            out |-> Walk(r.h, r.root), ok |-> r.ok, root |-> r.root]
       IN  Return(TreeDeletePrefixOp(Start(heap), Latest.root, p))
    /\ UNCHANGED <<trees, txns, calls, nops, reader>>

\* Up to MaxQueryOps Insert/Delete calls on the loaded tree, then one query on
\* the tree they gave.
NextQuery ==
    \/ /\ query = NoQuery
       /\ nops < MaxQueryOps
       /\ \/ \E k \in Keys : TreeInsert(k, NextVal)
          \/ \E k \in Keys : TreeDelete(k)
    \/ QueryMinimum
    \/ QueryMaximum
    \/ \E stop \in 0..MaxStop : QueryWalk(stop)
    \/ \E stop \in 0..MaxStop : QueryWalkBackwards(stop)
    \/ \E p \in Queries, stop \in 0..MaxStop : QueryWalkPrefix(p, stop)
    \/ \E p \in Queries, stop \in 0..MaxStop : QueryWalkPath(p, stop)
    \/ \E q \in Queries : QuerySeekLowerBound(q)
    \/ \E q \in Queries : QueryLongestPrefix(q)
    \/ \E p \in Queries : QueryDeletePrefix(p)

SpecQuery ==
    Init /\ [][NextQuery]_vars

\* ------------------------------------------------------------------ claims
\* The last Insert/Delete call (when calls is not empty).
LastCall ==
    calls[Len(calls)]

\* The keys of a Walk listing, in the order reported.
KeysOf(w) ==
    [i \in 1..Len(w) |-> w[i][1]]

\* C1: on every tree the program got (from the Inserts of the load, or from a
\* Txn's Inserts and Deletes followed by Commit), Get(K) returns for every key K
\* what the reference map driven by the same operations holds: (v, true) with the
\* last value inserted when K is in the map, (nil, false) when it is not.
C1_GetAgreesWithReference ==
    \A j \in 1..Len(trees) : \A k \in Keys :
        Get(heap, trees[j].root, k) = RefGet(trees[j].ref, k)

\* C1 witness: a committed Txn that deleted a stored key and then inserted.
C1_Witness ==
    \E i \in TxnIds :
        /\ txns[i].committed
        /\ Len(txns[i].log) = 2
        /\ txns[i].log[1].op = "delete"
        /\ txns[i].base[txns[i].log[1].key] # NilVal
        /\ txns[i].log[2].op = "insert"

\* C2: every held tree T0 is unchanged by the operations that derived later
\* trees from it: Get on T0 returns for every key what it returned when T0 was
\* obtained, and the deep copy of T0's structure equals the copy taken then.
C2_HeldTreesUnchanged ==
    \A j \in 1..Len(trees) :
        /\ Contents(heap, trees[j].root) = trees[j].gets
        /\ CopyNode(heap, trees[j].root) = trees[j].snap

\* C2 witness: a non-empty T0 from which an update of a stored key and then a
\* successful Delete derived two later trees.
C2_Witness ==
    /\ Len(trees) = 3
    /\ Len(calls) = 2
    /\ calls[1].op = "insert" /\ calls[1].ok
    /\ calls[2].op = "delete" /\ calls[2].ok
    /\ Len(trees[1].snap.edges) > 0

\* C5: Walk from the root of every held tree reports keys in strictly ascending
\* lexicographic order (so no key twice); the fn of Walk never aborts.
C5_WalkAscending ==
    \A j \in 1..Len(trees) :
        LET ks == KeysOf(Walk(heap, trees[j].root))
        IN  \A i \in 1..(Len(ks) - 1) : LexLess(ks[i], ks[i + 1])

\* C5 witness: a tree built by Inserts only that holds a key together with a
\* strict prefix of it, the last Insert having added a key that sorts before
\* one already stored.
C5_Witness ==
    /\ Len(calls) = 2
    /\ \A c \in 1..2 : calls[c].op = "insert" /\ ~calls[c].ok
    /\ LET ks == KeysOf(Walk(heap, Latest.root))
       IN  /\ Len(ks) >= 4
           /\ \E i \in 1..Len(ks) : LexLess(LastCall.key, ks[i])
           /\ \E i, i2 \in 1..Len(ks) : Len(ks[i]) < Len(ks[i2]) /\ HasPrefix(ks[i2], ks[i])

\* What Get reports for every key on Txn record t in heap h.
ViewOf(h, t) ==
    Contents(h, t.root)

\* A step of the program as seen from the two transactions: a Txn on which the
\* step made no call reports after the step what it reported before (the step
\* is a call or a Commit of the other Txn), and a Commit yields a tree whose
\* contents are those of the loaded tree with the committing Txn's calls applied.
IsolationStep ==
    /\ \A i \in TxnIds :
          txns'[i].log = txns[i].log => ViewOf(heap', txns'[i]) = ViewOf(heap, txns[i])
    /\ \A i \in TxnIds :
          txns'[i].committed /\ ~txns[i].committed =>
              \A k \in Keys :
                  Get(heap', trees'[Len(trees')].root, k)
                      = RefGet(RefApplyAll(trees[1].ref, txns[i].log), k)

\* C3: for the two Txns started from the same tree, no Get of one reflects a
\* call made on the other, under every interleaving of their calls; a Commit
\* yields the loaded tree's contents with only the committing Txn's calls
\* applied, and leaves the other Txn's Gets as they were.
C3_TxnIsolation ==
    [][IsolationStep]_vars

\* C3 witness: on a tree holding "aaa", "aab" and "ab" but not "a", one Txn
\* deleted "ab" (the node "a" merges with its child) and then inserted "aab"
\* (an edge of the merged node is replaced) and committed; the other Txn made no
\* call and is still open.
C3_Witness ==
    \E i, i2 \in TxnIds :
        /\ txns[i].committed
        /\ txns[i].log = << [op |-> "delete", key |-> <<1, 2>>],
                            [op |-> "insert", key |-> <<1, 1, 2>>, val |-> 3] >>
        /\ txns[i].base[<<1, 1, 1>>] # NilVal
        /\ txns[i].base[<<1, 1, 2>>] # NilVal
        /\ txns[i].base[<<1, 2>>] # NilVal
        /\ txns[i].base[<<1>>] = NilVal
        /\ txns[i2].open
        /\ txns[i2].log = <<>>

\* C6: Insert(K, v) returns (nil, false) when the reference map does not hold K
\* and (old, true) when it holds K with old; Get(K) then returns (v, true); and
\* an Insert of the key the same Txn inserted in its call just before reports
\* that call's value.
C6_InsertFeedback ==
    calls # <<>> /\ LastCall.op = "insert" =>
        /\ LastCall.ok = (LastCall.ref[LastCall.key] # NilVal)
        /\ LastCall.ret = LastCall.ref[LastCall.key]
        /\ Get(heap, LastCall.rootAfter, LastCall.key) = [val |-> LastCall.val, ok |-> TRUE]
        /\ Get(heap, txns[LastCall.id].root, LastCall.key) = [val |-> LastCall.val, ok |-> TRUE]
        /\ LET log == txns[LastCall.id].log
               n   == Len(log)
           IN  n >= 2 /\ log[n - 1].op = "insert" /\ log[n - 1].key = LastCall.key =>
                   LastCall.ok /\ LastCall.ret = log[n - 1].val

\* C6 witness: a Txn inserted a key that was not stored and inserted it again.
C6_Witness ==
    /\ Len(calls) = 2
    /\ calls[1].op = "insert" /\ ~calls[1].ok
    /\ calls[2].op = "insert" /\ calls[2].ok
    /\ calls[1].id = calls[2].id
    /\ calls[1].key = calls[2].key
    /\ calls[2].ret = calls[1].val

\* C10: every Txn reports for every key what its own calls so far, applied in
\* order to the contents of the tree it was started from, leave there.
C10_TxnReadsOwnCalls ==
    \A i \in TxnIds : \A k \in Keys :
        Get(heap, txns[i].root, k) = RefGet(TxnRef(i), k)

\* C10 witness: an open Txn that inserted a key that was not stored and then
\* deleted another, stored one.
C10_Witness ==
    \E i \in TxnIds :
        /\ txns[i].open
        /\ Len(txns[i].log) = 2
        /\ txns[i].log[1].op = "insert"
        /\ txns[i].base[txns[i].log[1].key] = NilVal
        /\ txns[i].log[2].op = "delete"
        /\ txns[i].log[2].key # txns[i].log[1].key
        /\ txns[i].base[txns[i].log[2].key] # NilVal

\* C7: Delete(K) of a key the reference map holds with v returns (v, true); in
\* the resulting tree Get(K) reports absent and every other key reports exactly
\* what the map held for it before the call.
C7_DeleteStored ==
    calls # <<>> /\ LastCall.op = "delete" /\ LastCall.ref[LastCall.key] # NilVal =>
        /\ LastCall.ok
        /\ LastCall.ret = LastCall.ref[LastCall.key]
        /\ Get(heap, LastCall.rootAfter, LastCall.key) = [val |-> NilVal, ok |-> FALSE]
        /\ \A k \in Keys \ {LastCall.key} :
              Get(heap, LastCall.rootAfter, k) = RefGet(LastCall.ref, k)

\* C7 witness: the Delete of "ab" from a tree holding "aaa" and "ab" but not "a"
\* and not "aab": the node "a" is left with one edge and no leaf and is merged
\* with its child.
C7_Witness ==
    /\ calls # <<>>
    /\ LastCall.op = "delete"
    /\ LastCall.ok
    /\ LastCall.key = <<1, 2>>
    /\ LastCall.ref[<<1, 1, 1>>] # NilVal
    /\ LastCall.ref[<<1, 1, 2>>] = NilVal
    /\ LastCall.ref[<<1>>] = NilVal

\* C8: Delete(K) of a key the reference map does not hold returns (nil, false),
\* the returned Tree has the root the call acted on, and the call allocated no
\* node and no edge array.
C8_DeleteAbsent ==
    calls # <<>> /\ LastCall.op = "delete" /\ LastCall.ref[LastCall.key] = NilVal =>
        /\ ~LastCall.ok
        /\ LastCall.ret = NilVal
        /\ LastCall.rootAfter = LastCall.rootBefore
        /\ Latest.root = LastCall.rootBefore
        /\ Len(heap.nodes) = LastCall.nodesBefore
        /\ Len(heap.arrs) = LastCall.arrsBefore

\* C8 witness: the tree holds "aaa" but not "aab", which is deleted: the key
\* diverges from the prefix of the edge it follows.
C8_Witness ==
    /\ calls # <<>>
    /\ LastCall.op = "delete"
    /\ LastCall.key = <<1, 1, 2>>
    /\ LastCall.ref[<<1, 1, 2>>] = NilVal
    /\ LastCall.ref[<<1, 1, 1>>] # NilVal
    /\ ~LastCall.ok

\* C9 as stated: for every tree T and every key K, Insert(K, v) followed by
\* Delete(K) yields a tree whose Walk listing equals that of T.
C9_InsertDeleteRestoresAnyKey ==
    /\ Len(calls) >= 2
    /\ calls[Len(calls) - 1].op = "insert"
    /\ LastCall.op = "delete"
    /\ LastCall.key = calls[Len(calls) - 1].key
    => Walk(heap, LastCall.rootAfter) = calls[Len(calls) - 1].walkBefore

\* C9 amended: for every tree T and every key K that T does not store,
\* Insert(K, v) followed by Delete(K) yields a tree whose Walk listing (keys and
\* values, in order) equals that of T.
C9_InsertDeleteRestoresNewKey ==
    /\ Len(calls) >= 2
    /\ calls[Len(calls) - 1].op = "insert"
    /\ calls[Len(calls) - 1].ref[LastCall.key] = NilVal
    /\ LastCall.op = "delete"
    /\ LastCall.key = calls[Len(calls) - 1].key
    => Walk(heap, LastCall.rootAfter) = calls[Len(calls) - 1].walkBefore

\* C9 witness: "ab" is inserted into a tree that holds "aaa" but neither "a" nor
\* "ab" (the edge to "aaa" is split) and deleted again (the split node is merged
\* back).
C9_Witness ==
    /\ Len(calls) = 2
    /\ calls[1].op = "insert" /\ calls[1].key = <<1, 2>> /\ ~calls[1].ok
    /\ calls[1].ref[<<1, 1, 1>>] # NilVal
    /\ calls[1].ref[<<1>>] = NilVal
    /\ calls[2].op = "delete" /\ calls[2].key = <<1, 2>> /\ calls[2].ok
    /\ Walk(heap, Latest.root) = calls[1].walkBefore

\* The nodes reachable from node n over edges.
RECURSIVE Reach(_, _)
Reach(h, n) ==
    IF n = Nil THEN {}
    ELSE {n} \cup UNION {Reach(h, EdgesOf(h, n)[i].node) : i \in 1..Len(EdgesOf(h, n))}

\* The nodes reachable from the root of a committed tree.
CommittedNodes ==
    UNION {Reach(heap, trees[j].root) : j \in 1..Len(trees)}

\* No location the last call wrote is a field of a committed node or a slot of
\* its edges slice.
NoWriteToCommitted ==
    \A loc \in heap.w :
        /\ loc[1] = "node" => loc[2] \notin CommittedNodes
        /\ loc[1] = "arr" =>
               \A n \in CommittedNodes :
                   ~(heap.nodes[n].edges.arr = loc[2] /\ loc[3] <= heap.nodes[n].edges.len)

\* The walk w run to its end on heap h.
RECURSIVE WalkRun(_, _)
WalkRun(h, w) ==
    IF w.done THEN w ELSE WalkRun(h, WalkStep(h, w))

\* Wherever the reader stands, the rest of its read on the heap as it is now
\* ends with what the same read returns with no writer running; a finished
\* read has returned exactly that.
ReaderSawCommitted ==
    /\ reader.kind = "get" => GetRun(heap, reader.get) = reader.expectGet
    /\ reader.kind = "walk" =>
           /\ ~WalkRun(heap, reader.walk).fault
           /\ WalkRun(heap, reader.walk).out = reader.expectWalk

\* C4: no step of a Txn's Insert or Delete writes the leaf, prefix or an edges
\* slot of a node reachable from a committed tree's root, and a Get or Walk on
\* the committed tree whose steps fall between the writer's calls returns what
\* it returns with no writer running.
C4_ReadersUndisturbed ==
    NoWriteToCommitted /\ ReaderSawCommitted

\* C4 witness: a Walk of a tree holding "aaa" and "ab" that started before the
\* writer's first call is inside the node both keys hang from, with "aaa"
\* listed and "ab" still to come, when the writer has deleted "ab" (the node is
\* merged in the writer's copy) and inserted "a".
C4_Witness ==
    /\ reader.kind = "walk" /\ ~reader.walk.done
    /\ reader.began = 0
    /\ Len(reader.walk.out) = 1 /\ reader.walk.out[1][1] = <<1, 1, 1>>
    /\ Len(reader.expectWalk) = 2 /\ reader.expectWalk[2][1] = <<1, 2>>
    /\ Len(calls) = 2
    /\ calls[1].op = "delete" /\ calls[1].key = <<1, 2>> /\ calls[1].ok
    /\ calls[1].ref[<<1, 1, 1>>] # NilVal /\ calls[1].ref[<<1>>] = NilVal
    /\ calls[2].op = "insert" /\ calls[2].key = <<1>>

\* The keys the reference map ref holds.
StoredKeys(ref) ==
    {k \in Keys : ref[k] # NilVal}

\* The reference map of the tree the query ran on.
QueryRef ==
    trees[query.on].ref

\* C11: Minimum on the root returns the lexicographically smallest stored key
\* and Maximum the largest, each with its value and found = true; both return
\* found = false exactly when the tree stores no key.
C11_MinimumMaximum ==
    query.op \in {"Minimum", "Maximum"} =>
        /\ query.ok <=> StoredKeys(QueryRef) # {}
        /\ query.ok =>
              /\ query.out[1][1] \in StoredKeys(QueryRef)
              /\ query.out[1][2] = QueryRef[query.out[1][1]]
              /\ \A k \in StoredKeys(QueryRef) \ {query.out[1][1]} :
                     IF query.op = "Minimum"
                     THEN LexLess(query.out[1][1], k)
                     ELSE LexLess(k, query.out[1][1])

\* C11 witness: Maximum on a tree that stores "a" at an inner node with longer
\* keys below it, after a Delete, returns a key other than "a".
C11_Witness ==
    /\ query.op = "Maximum" /\ query.ok
    /\ calls # <<>> /\ LastCall.op = "delete" /\ LastCall.ok
    /\ QueryRef[<<1>>] # NilVal
    /\ QueryRef[<<2>>] = NilVal
    /\ Len(query.out[1][1]) > 1

\* The keys of the set K in ascending lexicographic order.
RECURSIVE Ascending(_)
Ascending(K) ==
    IF K = {} THEN <<>>
    ELSE LET m == CHOOSE x \in K : \A y \in K \ {x} : LexLess(x, y)
         IN  <<m>> \o Ascending(K \ {m})

\* The pairs (key, value in ref) for the keys of the sequence ks.
Listing(ref, ks) ==
    [i \in 1..Len(ks) |-> <<ks[i], ref[ks[i]]>>]

\* The first n elements of the sequence s (all of it when shorter).
FirstN(s, n) ==
    [i \in 1..(IF n < Len(s) THEN n ELSE Len(s)) |-> s[i]]

\* The sequence s reversed.
Reverse(s) ==
    [i \in 1..Len(s) |-> s[Len(s) + 1 - i]]

\* C12: WalkPrefix(P, fn) with a never-aborting fn calls fn exactly once for
\* each stored key that has P as a prefix (with the key's value) and for no
\* other key; for nothing when no stored key has the prefix P.
C12_WalkPrefixVisitsPrefixed ==
    query.op = "WalkPrefix" /\ query.stop = 0 =>
        LET under == {k \in StoredKeys(QueryRef) : HasPrefix(k, query.arg)}
        IN  /\ {query.out[i][1] : i \in 1..Len(query.out)} = under
            /\ Len(query.out) = Cardinality(under)
            /\ \A i \in 1..Len(query.out) : query.out[i][2] = QueryRef[query.out[i][1]]

\* C12 witness: WalkPrefix("aa") on a tree, reached by a Delete, in which "aa"
\* ends inside the prefix of the node of "aaa"; it reports "aaa".
C12_Witness ==
    /\ query.op = "WalkPrefix" /\ query.stop = 0 /\ query.arg = <<1, 1>>
    /\ calls # <<>> /\ LastCall.op = "delete" /\ LastCall.ok
    /\ QueryRef[<<1, 1, 2>>] = NilVal /\ QueryRef[<<1, 2>>] = NilVal
    /\ QueryRef[<<1>>] = NilVal
    /\ Len(query.out) = 1 /\ query.out[1][1] = <<1, 1, 1>>

\* C13: WalkPath(P, fn) with a never-aborting fn calls fn exactly on the stored
\* keys that are prefixes of P (P itself and the empty key included), each
\* once, in order of increasing length.
C13_WalkPathVisitsPrefixes ==
    query.op = "WalkPath" /\ query.stop = 0 =>
        LET above == {k \in StoredKeys(QueryRef) : HasPrefix(query.arg, k)}
        IN  /\ {query.out[i][1] : i \in 1..Len(query.out)} = above
            /\ Len(query.out) = Cardinality(above)
            /\ \A i \in 1..(Len(query.out) - 1) :
                   Len(query.out[i][1]) < Len(query.out[i + 1][1])
            /\ \A i \in 1..Len(query.out) : query.out[i][2] = QueryRef[query.out[i][1]]

\* C13 witness: WalkPath("aaa") on a tree that stores "", "a", "aaa" and "aab"
\* reports the first three.
C13_Witness ==
    /\ query.op = "WalkPath" /\ query.stop = 0 /\ query.arg = <<1, 1, 1>>
    /\ QueryRef[<<1, 1, 2>>] # NilVal
    /\ Len(query.out) = 3

\* a comes before b in a pre-order walk that takes a node's edges from the last
\* to the first: a is a proper prefix of b, or neither is a prefix of the other
\* and a is the larger.
BackwardsBefore(a, b) ==
    /\ a # b
    /\ \/ HasPrefix(b, a)
       \/ ~HasPrefix(a, b) /\ LexLess(b, a)

\* The keys of the set K in the order BackwardsBefore.
RECURSIVE Backwards(_)
Backwards(K) ==
    IF K = {} THEN <<>>
    ELSE LET m == CHOOSE x \in K : \A y \in K \ {x} : BackwardsBefore(x, y)
         IN  <<m>> \o Backwards(K \ {m})

Unaborted ==
    Listing(QueryRef,
        CASE query.op = "Walk" -> Ascending(StoredKeys(QueryRef))
          [] query.op = "WalkBackwards" -> Backwards(StoredKeys(QueryRef))
          [] query.op = "WalkPrefix" ->
                 Ascending({k \in StoredKeys(QueryRef) : HasPrefix(k, query.arg)})
          [] query.op = "WalkPath" ->
                 Ascending({k \in StoredKeys(QueryRef) : HasPrefix(query.arg, k)}))

\* C15: for Walk, WalkBackwards, WalkPrefix and WalkPath, once the callback has
\* returned true (on its stop-th call) it is not called again, and the pairs it
\* was called with are the first ones of the sequence the same walk passes to a
\* callback that never aborts.
C15_AbortStopsWalk ==
    query.op \in {"Walk", "WalkBackwards", "WalkPrefix", "WalkPath"} /\ query.stop > 0 =>
        /\ Len(query.out) <= query.stop
        /\ query.out = FirstN(Unaborted, query.stop)

\* C15 witness: WalkPrefix("a") with a callback that aborts on its second call,
\* on a tree that stores "a", "aaa" and "aab": two calls, the third key is not
\* passed.
C15_Witness ==
    /\ query.op = "WalkPrefix" /\ query.arg = <<1>> /\ query.stop = 2
    /\ QueryRef[<<1>>] # NilVal /\ QueryRef[<<1, 1, 1>>] # NilVal
    /\ QueryRef[<<1, 1, 2>>] # NilVal
    /\ Len(query.out) = 2

StartsWith(k, p) ==
    /\ Len(p) <= Len(k)
    /\ \A i \in 1..Len(p) : k[i] = p[i]

\* C17: DeletePrefix(P) returns a tree from which exactly the stored keys with
\* prefix P are gone (every other key keeps its value; Walk lists them in
\* order) and reports true iff at least one key was removed; when no stored
\* key has the prefix P it returns the original tree and false.
C17_DeletePrefixRemovesPrefixed ==
    query.op = "DeletePrefix" =>
        LET kept == {k \in StoredKeys(QueryRef) : ~StartsWith(k, query.arg)}
        IN  /\ \A k \in Keys :
                   Get(heap, query.root, k)
                       = IF k \in kept THEN [val |-> QueryRef[k], ok |-> TRUE]
                                       ELSE [val |-> NilVal, ok |-> FALSE]
            /\ query.out = Listing(QueryRef, Ascending(kept))
            /\ query.ok <=> kept # StoredKeys(QueryRef)
            /\ ~query.ok => query.root = trees[query.on].root

\* C17 witness: DeletePrefix("aa") on a tree that stores "aaa", "ab" and "b" and
\* neither "a" nor "aab" ("aa" ends inside the prefix of the node of "aaa", whose
\* parent is merged with the node of "ab") returns true and a tree of "ab", "b".
C17_Witness ==
    /\ query.op = "DeletePrefix" /\ query.arg = <<1, 1>> /\ query.ok
    /\ StoredKeys(QueryRef) = { <<1, 1, 1>>, <<1, 2>>, <<2>> }
    /\ KeysOf(query.out) = << <<1, 2>>, <<2>> >>

\* C18: LongestPrefix(Q) returns the longest stored key that is a prefix of Q,
\* with its value and found = true (the empty key when it is stored and no
\* longer stored key is a prefix of Q), and found = false when no stored key
\* is a prefix of Q.
C18_LongestPrefixMatch ==
    query.op = "LongestPrefix" =>
        LET above == {k \in StoredKeys(QueryRef) : StartsWith(query.arg, k)}
        IN  /\ query.ok <=> above # {}
            /\ query.ok =>
                  /\ query.out[1][1] \in above
                  /\ \A k \in above : Len(k) <= Len(query.out[1][1])
                  /\ query.out[1][2] = QueryRef[query.out[1][1]]

\* C18 witness: LongestPrefix("aba") on a tree that stores "", "a" and "ab"
\* returns "ab".
C18_Witness ==
    /\ query.op = "LongestPrefix" /\ query.arg = <<1, 2, 1>> /\ query.ok
    /\ QueryRef[<<>>] # NilVal /\ QueryRef[<<1>>] # NilVal
    /\ query.out[1][1] = <<1, 2>>

\* The roots a program can observe: Tree.Root() of every tree it holds (that
\* returned by DeletePrefix included) and Txn.Root() of every Txn.
ObservableRoots ==
    ({trees[j].root : j \in 1..Len(trees)}
         \cup {txns[i].root : i \in TxnIds}
         \cup {query.root}) \ {Nil}

\* C19: in every tree observable through Tree.Root() or Txn.Root(), no node
\* other than the root has exactly one edge and no leaf, and none has neither
\* leaf nor edges; the root is never merged with a child (its prefix stays
\* empty).
C19_MergeChildInvariant ==
    \A r \in ObservableRoots :
        /\ heap.nodes[r].prefix = <<>>
        /\ \A n \in Reach(heap, r) \ {r} :
               /\ ~(Len(EdgesOf(heap, n)) = 1 /\ ~isLeaf(heap, n))
               /\ ~(Len(EdgesOf(heap, n)) = 0 /\ ~isLeaf(heap, n))

\* C19 witness: a Txn deleted "ab" from a tree of "aaa" and "ab": the node
\* that held both edges was merged with the node of "aaa", and the root, left
\* with one edge and no leaf, was not merged.
C19_Witness ==
    /\ calls # <<>>
    /\ LastCall.op = "delete" /\ LastCall.on = "txn" /\ LastCall.ok
    /\ LastCall.key = <<1, 2>>
    /\ StoredKeys(LastCall.ref) = { <<1, 1, 1>>, <<1, 2>> }
    /\ LastCall.rootAfter \in ObservableRoots
    /\ ~isLeaf(heap, LastCall.rootAfter)
    /\ Len(EdgesOf(heap, LastCall.rootAfter)) = 1
    /\ heap.nodes[EdgesOf(heap, LastCall.rootAfter)[1].node].prefix = <<1, 1, 1>>

\* C20: in every node reachable from the root of a committed tree or from the
\* working root of a Txn, the edge labels are pairwise distinct and strictly
\* ascending.
C20_EdgesSorted ==
    \A r \in ObservableRoots :
        \A n \in Reach(heap, r) :
            \A i \in 1..Len(EdgesOf(heap, n)) - 1 :
                EdgesOf(heap, n)[i].label < EdgesOf(heap, n)[i + 1].label

\* C20 witness: a Txn inserted a key that starts with "a" into a tree whose
\* root had the single edge "b": the new edge stands before the old one.
C20_Witness ==
    /\ calls # <<>>
    /\ LastCall.op = "insert" /\ LastCall.on = "txn"
    /\ Len(LastCall.key) > 0 /\ LastCall.key[1] = 1
    /\ StoredKeys(LastCall.ref) = { <<2>> }
    /\ LastCall.rootAfter \in ObservableRoots
    /\ Len(EdgesOf(heap, LastCall.rootAfter)) = 2
    /\ EdgesOf(heap, LastCall.rootAfter)[1].label = 1
    /\ EdgesOf(heap, LastCall.rootAfter)[2].label = 2

\* C21: in every observable tree the root's prefix is empty and every edge's
\* label is the first byte of its child's prefix (so the prefix of a non-root
\* node is never empty), also after an edge was split and after a node was
\* merged with its child.
C21_LabelIsFirstPrefixByte ==
    \A r \in ObservableRoots :
        /\ heap.nodes[r].prefix = <<>>
        /\ \A n \in Reach(heap, r) :
               \A i \in 1..Len(EdgesOf(heap, n)) :
                   /\ Len(heap.nodes[EdgesOf(heap, n)[i].node].prefix) > 0
                   /\ EdgesOf(heap, n)[i].label
                          = heap.nodes[EdgesOf(heap, n)[i].node].prefix[1]

\* C21 witness: a Txn inserted "ab" into a tree of "aaa": the edge "a" of the
\* root was split into a node with prefix "a" whose edges "a" and "b" lead to
\* the prefixes "aa" (the shortened child) and "b".
C21_Witness ==
    /\ calls # <<>>
    /\ LastCall.op = "insert" /\ LastCall.on = "txn"
    /\ LastCall.key = <<1, 2>>
    /\ StoredKeys(LastCall.ref) = { <<1, 1, 1>> }
    /\ LastCall.rootAfter \in ObservableRoots
    /\ LET split == EdgesOf(heap, LastCall.rootAfter)[1].node
       IN  /\ heap.nodes[split].prefix = <<1>>
           /\ Len(EdgesOf(heap, split)) = 2
           /\ heap.nodes[EdgesOf(heap, split)[1].node].prefix = <<1, 1>>
           /\ heap.nodes[EdgesOf(heap, split)[2].node].prefix = <<2>>

\* Every leaf in the subtree of n holds as key the prefixes met from the root
\* r down to its node, acc being those above n, and Get on r finds it under
\* that key.
RECURSIVE LeafKeysSpellPath(_, _, _, _)
LeafKeysSpellPath(h, r, n, acc) ==
    /\ isLeaf(h, n) =>
           /\ h.nodes[n].leaf.key = acc \o h.nodes[n].prefix
           /\ Get(h, r, h.nodes[n].leaf.key) = [val |-> h.nodes[n].leaf.val, ok |-> TRUE]
    /\ \A i \in 1..Len(EdgesOf(h, n)) :
           LeafKeysSpellPath(h, r, EdgesOf(h, n)[i].node, acc \o h.nodes[n].prefix)

\* C22: in every observable tree, the key of every leaf is the concatenation of
\* the prefixes of the nodes on the path from the root to the leaf's node, so
\* Get, which does not compare leaf.key with the searched key, returns under a
\* key the value of the leaf that holds this key.
C22_LeafKeyIsPath ==
    \A r \in ObservableRoots : LeafKeysSpellPath(heap, r, r, <<>>)

\* C22 witness: a Txn deleted "a" from a tree of "a" and "aaa": the node of "a"
\* lost its leaf and was merged with its only child; it now has the prefix
\* "aaa" and the leaf of "aaa".
C22_Witness ==
    /\ calls # <<>>
    /\ LastCall.op = "delete" /\ LastCall.on = "txn" /\ LastCall.ok
    /\ LastCall.key = <<1>>
    /\ StoredKeys(LastCall.ref) = { <<1>>, <<1, 1, 1>> }
    /\ LastCall.rootAfter \in ObservableRoots
    /\ LET merged == EdgesOf(heap, LastCall.rootAfter)[1].node
       IN  /\ heap.nodes[merged].prefix = <<1, 1, 1>>
           /\ heap.nodes[merged].leaf.key = <<1, 1, 1>>

\* C23: no sequence of Insert, Delete and Commit calls of Txns on a tree (with
\* the Get and Walk calls made on every tree they yield) reaches a fatal fault:
\* replaceEdge always finds the label it is given, and nc.edges[idx],
\* modChild.prefix[commonPrefix] and n.edges[0] are always in range.
C23_NoPanic ==
    ~heap.panic

\* C23 witness: a tree of "aaa" took Insert("aab"), which split the edge of "aaa"
\* (replaceEdge, modChild.prefix[commonPrefix]), and then Delete("aab"), which
\* merged the split node with the child left (n.edges[0]), without a fault.
C23_Witness ==
    /\ ~heap.panic
    /\ Len(calls) = 2
    /\ calls[1].op = "insert" /\ calls[1].key = <<1, 1, 2>>
    /\ StoredKeys(calls[1].ref) = { <<1, 1, 1>> }
    /\ calls[2].op = "delete" /\ calls[2].key = <<1, 1, 2>> /\ calls[2].ok
    /\ calls[2].id = calls[1].id
    /\ heap.nodes[EdgesOf(heap, calls[1].rootAfter)[1].node].prefix = <<1, 1>>
    /\ heap.nodes[EdgesOf(heap, calls[2].rootAfter)[1].node].prefix = <<1, 1, 1>>

\* The calls Txn i made that change a tree: every Insert, and every Delete that
\* reported the key as present.
MutatingCalls(i) ==
    {j \in 1..Len(calls) :
        /\ calls[j].on = "txn" /\ calls[j].id = i
        /\ calls[j].op = "insert" \/ calls[j].ok}

\* C24: the flag Commit returns is true iff the Txn made at least one Insert or
\* at least one Delete that reported the key as present; when it is false (no
\* call, or only Deletes of absent keys) the committed Tree holds the very root
\* the Txn was started from.
C24_CommitReportsMutation ==
    \A i \in TxnIds :
        txns[i].committed =>
            /\ txns[i].mutated <=> MutatingCalls(i) # {}
            /\ ~txns[i].mutated => trees[txns[i].tree].root = txns[i].orig

\* C24 witness: Txn 1 made only a Delete of an absent key and its Commit
\* reported false; Txn 2 made an Insert and its Commit reported true.
C24_Witness ==
    /\ txns[1].committed /\ ~txns[1].mutated
    /\ txns[2].committed /\ txns[2].mutated
    /\ Len(calls) = 2
    /\ calls[1].on = "txn" /\ calls[1].id = 1 /\ calls[1].op = "delete" /\ ~calls[1].ok
    /\ calls[2].on = "txn" /\ calls[2].id = 2 /\ calls[2].op = "insert"
    /\ trees[txns[1].tree].root = trees[1].root
    /\ trees[txns[2].tree].root # trees[1].root

\* The nodes of the subtree of n, each with the bytes that lead to it: the
\* prefixes from the root down to it, acc being those above n.
RECURSIVE Placed(_, _, _)
Placed(h, n, acc) ==
    {<<n, acc \o h.nodes[n].prefix>>}
        \cup UNION {Placed(h, EdgesOf(h, n)[i].node, acc \o h.nodes[n].prefix) :
                        i \in 1..Len(EdgesOf(h, n))}

\* Of the placed nodes P, those off the descent path of key k.
OffPath(P, k) ==
    {p \in P : ~StartsWith(k, p[2])}

\* The nodes of the tree before the last call, and of the tree it produced.
PlacedBefore ==
    Placed(heap, LastCall.rootBefore, <<>>)

PlacedAfter ==
    Placed(heap, LastCall.rootAfter, <<>>)

\* C25: after an Insert or Delete of key K, every node of the new tree is
\* either the identical node object at the same place as in the previous
\* version, or a node allocated by the call; the allocated ones lie on the
\* descent path of K, except at most one: the copy of the child that was split
\* (its prefix shortened) or the copy that absorbed its child (its prefix
\* lengthened), which stands where a node of the previous version stood and
\* has that node's leaf and edges, so that all subtrees below are shared.  The
\* call allocates at most one node that is not in the new tree (the copy of
\* the node of K that a Delete empties and unlinks).
C25_PathCopySharesSubtrees ==
    calls # <<>> =>
        LET created == PlacedAfter \ PlacedBefore
            dropped == PlacedBefore \ PlacedAfter
        IN  /\ \A p \in created : p[1] > LastCall.nodesBefore
            /\ Len(heap.nodes) - LastCall.nodesBefore <= Cardinality(created) + 1
            /\ Cardinality(OffPath(created, LastCall.key)) <= 1
            /\ \A p \in OffPath(created, LastCall.key) :
                   \E q \in dropped :
                       /\ q[2] = p[2]
                       /\ heap.nodes[q[1]].prefix # heap.nodes[p[1]].prefix
                       /\ heap.nodes[q[1]].leaf = heap.nodes[p[1]].leaf
                       /\ EdgesOf(heap, q[1]) = EdgesOf(heap, p[1])

\* C25 witness: Insert("ab") on a tree of "aaa", "aab" and "b" split the edge to
\* the node "aa": the nodes of "b", "aaa" and "aab" are the same objects in both
\* versions, the only allocated node off the path is the copy of "aa" (now
\* "a"), and the root's copy, the split node and the node of "ab" are new.
C25_Witness ==
    /\ calls # <<>>
    /\ LastCall.op = "insert" /\ LastCall.key = <<1, 2>>
    /\ StoredKeys(LastCall.ref) = { <<1, 1, 1>>, <<1, 1, 2>>, <<2>> }
    /\ Cardinality(PlacedBefore \cap PlacedAfter) = 3
    /\ Cardinality(OffPath(PlacedAfter \ PlacedBefore, LastCall.key)) = 1
    /\ Cardinality(PlacedAfter \ PlacedBefore) = 4

\* The shape of the subtree of n: its prefix, the key of its leaf (if any) and,
\* per edge in order, the label and the shape of the child.
RECURSIVE Shape(_, _)
Shape(h, n) ==
    [prefix |-> h.nodes[n].prefix,
     leaf   |-> IF isLeaf(h, n) THEN <<h.nodes[n].leaf.key>> ELSE <<>>,
     edges  |-> [i \in 1..Len(EdgesOf(h, n)) |->
                    <<EdgesOf(h, n)[i].label, Shape(h, EdgesOf(h, n)[i].node)>>]]

\* The tree under root has the shape of the tree built from nothing by
\* inserting the keys S in ascending order.
ShapedAsLoaded(root, S) ==
    LET Same(l) == Shape(heap, root) = Shape(l.h, l.root)
        Fill(h0) == Same(Load(h0, Len(h0.nodes), S, 1))
    IN  Fill(New(EmptyHeap))

\* C26: the node structure is determined by the set of stored keys: every tree
\* reached by a sequence of Insert and Delete calls has the shape of the tree
\* that the ascending insertion of its keys builds, and any two trees held
\* that store the same keys have the same prefixes, leaf placement and edge
\* labels at every node.
C26_CanonicalShape ==
    /\ \A i \in 1..Len(trees) : ShapedAsLoaded(trees[i].root, StoredKeys(trees[i].ref))
    /\ \A i, j \in 1..Len(trees) :
           StoredKeys(trees[i].ref) = StoredKeys(trees[j].ref)
               => Shape(heap, trees[i].root) = Shape(heap, trees[j].root)

\* C26 witness: a tree of "aaa" and "b" took Insert("aab"), which split the
\* edge of "aaa", and then Delete("aab"), which merged the split node again:
\* the third tree is made of other nodes than the first and has its shape.
C26_Witness ==
    /\ Len(trees) = 3
    /\ StoredKeys(trees[1].ref) = { <<1, 1, 1>>, <<2>> }
    /\ StoredKeys(trees[2].ref) = { <<1, 1, 1>>, <<1, 1, 2>>, <<2>> }
    /\ StoredKeys(trees[3].ref) = StoredKeys(trees[1].ref)
    /\ trees[3].root # trees[1].root
    /\ EdgesOf(heap, trees[3].root)[1].node # EdgesOf(heap, trees[1].root)[1].node
    /\ Shape(heap, trees[3].root) = Shape(heap, trees[1].root)
    /\ Shape(heap, trees[2].root) # Shape(heap, trees[1].root)

====
